---- MODULE Spec2Model ----
(***************************************************************************)
(* Model of the `proptest` attribute macro of proptest-attr (src/lib.rs).  *)
(* One behaviour is one expansion: the attribute's argument tokens and the *)
(* annotated item are fixed in the initial state, and the actions are the  *)
(* successive stages of the macro body: parsing the arguments, the loop    *)
(* over the arguments, the missing-strategy check, parsing the item, the   *)
(* loop over the parameters, building the callback binding and emitting.   *)
(***************************************************************************)
EXTENDS Naturals, Sequences, FiniteSets

VARIABLES args, input, pc, i, maybe_strategy, strategy, attrs, vis,
          test_function_signature, k, inner_inputs_pats, inner_inputs_types,
          inner_inputs, output

vars == <<args, input, pc, i, maybe_strategy, strategy, attrs, vis,
          test_function_signature, k, inner_inputs_pats, inner_inputs_types,
          inner_inputs, output>>

(* Bounds of the model: longest argument list and longest parameter list. *)
MaxArgs == 2
MaxParams == 2

RECURSIVE SeqsUpTo(_, _)
SeqsUpTo(S, n) ==
    IF n = 0 THEN {<<>>}
    ELSE LET shorter == SeqsUpTo(S, n - 1)
         IN  shorter \cup {Append(s, x) : s \in {t \in shorter : Len(t) = n - 1}, x \in S}

None == [tag |-> "None"]
Some(v) == [tag |-> "Some", val |-> v]

(***************************************************************************)
(* Attribute arguments: the NestedMeta values the argument loop matches on. *)
(***************************************************************************)
LitStr(text) == [kind |-> "Str", text |-> text]
LitInt(text) == [kind |-> "Int", text |-> text]
NoLit == [kind |-> "None", text |-> ""]

MetaPath(ident) == [shape |-> "Path", path |-> ident, lit |-> NoLit]
MetaList(ident) == [shape |-> "List", path |-> ident, lit |-> NoLit]
MetaNameValue(ident, lit) == [shape |-> "NameValue", path |-> ident, lit |-> lit]
NestedLit(lit) == [shape |-> "Lit", path |-> "", lit |-> lit]

(* The strategy strings of the test fixtures: those that parse, and the malformed one. *)
GoodTexts == {"0..10u8", "hello_world()"}
BadTexts == {"123\\sdfq;;@"}

ArgValues ==
    {MetaNameValue("strategy", LitStr(t)) : t \in GoodTexts \cup BadTexts}
    \cup {MetaNameValue("strategy", LitInt("42")),
          MetaNameValue("helloworld", LitStr("abc")),
          MetaPath("asdf"),
          MetaList("strategy"),
          NestedLit(LitStr("abc"))}

(* The argument token stream: one that is no AttributeArgs, or a list. *)
ArgInputs ==
    {[wellformed |-> FALSE, list |-> <<>>]}
    \cup {[wellformed |-> TRUE, list |-> s] : s \in SeqsUpTo(ArgValues, MaxArgs)}

(***************************************************************************)
(* The annotated item.                                                     *)
(***************************************************************************)
PatIdent(mut, name) == [kind |-> "Ident", mut |-> mut, elems |-> <<name>>]
PatTuple(names) == [kind |-> "Tuple", mut |-> FALSE, elems |-> names]
NoPat == [kind |-> "None", mut |-> FALSE, elems |-> <<>>]

Typed(a, pat, ty) == [form |-> "Typed", attrs |-> a, pat |-> pat, ty |-> ty]
Receiver(a) == [form |-> "Receiver", attrs |-> a, pat |-> NoPat, ty |-> "Self"]

ParamValues ==
    {Typed(<<>>, PatIdent(FALSE, "a"), "u8"),
     Typed(<<>>, PatIdent(TRUE, "_b"), "u32"),
     Typed(<<>>, PatTuple(<<"a", "b">>), "(u8, u32)"),
     Typed(<<"x">>, PatIdent(FALSE, "a"), "u8"),
     Typed(<<"y", "x">>, PatIdent(TRUE, "_b"), "u32"),
     Receiver(<<>>),
     Receiver(<<"x">>)}

ReturnDefault == [tag |-> "Default", ty |-> ""]
ReturnType(ty) == [tag |-> "Type", ty |-> ty]

Signature(ident, asyncness, generics, inputs, ret) ==
    [ident |-> ident, asyncness |-> asyncness, generics |-> generics,
     inputs |-> inputs, output |-> ret]

ItemFn(a, v, sig, stmts) ==
    [is_fn |-> TRUE, attrs |-> a, vis |-> v, sig |-> sig, stmts |-> stmts]

NotAFn ==
    [is_fn |-> FALSE, attrs |-> <<>>, vis |-> "",
     sig |-> Signature("", FALSE, "", <<>>, ReturnDefault), stmts |-> <<>>]

FnInputs ==
    {NotAFn}
    \cup {ItemFn(<<"test">>, "pub",
                 Signature("example_test", FALSE, "", ps, ReturnType("TestCaseResult")),
                 <<"s1", "s2">>) : ps \in SeqsUpTo(ParamValues, MaxParams)}
    \cup {ItemFn(<<>>, "",
                 Signature("basic_test", TRUE, "<T> where T: Debug", ps, ReturnDefault),
                 <<"s2", "s1", "s2">>) : ps \in SeqsUpTo(ParamValues, MaxParams)}

(***************************************************************************)
(* Diagnostics and the other outputs of an expansion.                       *)
(***************************************************************************)
SpanArg(n) == [of |-> "arg", at |-> n, sub |-> 0]
SpanLit(n) == [of |-> "lit", at |-> n, sub |-> 0]
SpanParam(n) == [of |-> "param", at |-> n, sub |-> 0]
SpanParamAttr(n, a) == [of |-> "param_attr", at |-> n, sub |-> a]
NoSpan == [of |-> "call_site", at |-> 0, sub |-> 0]

NoFn == [attrs |-> <<>>, vis |-> "", sig |-> Signature("", FALSE, "", <<>>, ReturnDefault),
         strategy |-> None, closure_inputs |-> None, closure_output |-> ReturnDefault,
         closure_stmts |-> <<>>]

Msg(text) == [text |-> text, detail |-> ""]
NoMsg == Msg("")

Pending == [kind |-> "pending", message |-> NoMsg, span |-> NoSpan, item |-> NoFn]
CompileError(message, span) ==
    [kind |-> "error", message |-> message, span |-> span, item |-> NoFn]
CompileErrorMacro(message) ==
    [kind |-> "compile_error_macro", message |-> message, span |-> NoSpan, item |-> NoFn]
Emitted(item) == [kind |-> "fn", message |-> NoMsg, span |-> NoSpan, item |-> item]

MsgArgsSyntax == Msg("args: syntax error")
MsgItemSyntax == Msg("input: expected fn")
MsgInvalidExpr(err) == [text |-> "strategy is not a valid Rust expression: ", detail |-> err]
MsgNotStr == Msg("invalid strategy: must be a string literal")
MsgDuplicate == Msg("multiple strategies are not allowed")
MsgUnknown == Msg("unknown argument")
MsgMissing == Msg("no strategy specified for this proptest")
MsgParamAttrs == Msg("proptest-attr does not allow to have attributes for function arguments")
MsgReceiver == Msg("receiver arguments are invalid in the testing context")

(***************************************************************************)
(* strategy_str.parse::<Expr>(): the second parse, of the literal's text.   *)
(***************************************************************************)
ExprOk(node, parts) == [ok |-> TRUE, node |-> node, parts |-> parts, err |-> ""]
ExprErr(err) == [ok |-> FALSE, node |-> "", parts |-> <<>>, err |-> err]

(* Faulty variant: a parser that accepts any text. *)
ParseExpr_Lenient(text) ==
    CASE text = "0..10u8" -> ExprOk("Range", <<"0", "10u8">>)
      [] text = "hello_world()" -> ExprOk("Call", <<"hello_world">>)
      [] OTHER -> ExprOk("Verbatim", <<text>>)

ParseExpr(text) ==
    CASE text = "0..10u8" -> ExprOk("Range", <<"0", "10u8">>)
      [] text = "hello_world()" -> ExprOk("Call", <<"hello_world">>)
      [] OTHER -> ExprErr("unexpected token")

(* Faulty variant of the loop body: a later strategy replaces the accepted one. *)
ClassifyArg_LastWins(arg, n, ms) ==
    IF arg.shape = "NameValue"
    THEN IF arg.path = "strategy"
         THEN IF arg.lit.kind = "Str"
              THEN LET parsed == ParseExpr(arg.lit.text)
                   IN  IF parsed.ok
                       THEN [ret |-> Pending,
                             ms |-> Some([expr |-> parsed, span |-> SpanLit(n)])]
                       ELSE [ret |-> CompileError(MsgInvalidExpr(parsed.err), SpanLit(n)),
                             ms |-> ms]
              ELSE [ret |-> CompileError(MsgNotStr, SpanLit(n)), ms |-> ms]
         ELSE IF ms # None
              THEN [ret |-> CompileError(MsgDuplicate, SpanArg(n)), ms |-> ms]
              ELSE [ret |-> CompileError(MsgUnknown, SpanArg(n)), ms |-> ms]
    ELSE [ret |-> CompileError(MsgUnknown, SpanArg(n)), ms |-> ms]

(* Faulty variant of the loop body: an argument that is no name-value is skipped. *)
ClassifyArg_SkipsOthers(arg, n, ms) ==
    IF arg.shape = "NameValue"
    THEN IF arg.path = "strategy" /\ ms = None
         THEN IF arg.lit.kind = "Str"
              THEN LET parsed == ParseExpr(arg.lit.text)
                   IN  IF parsed.ok
                       THEN [ret |-> Pending,
                             ms |-> Some([expr |-> parsed, span |-> SpanLit(n)])]
                       ELSE [ret |-> CompileError(MsgInvalidExpr(parsed.err), SpanLit(n)),
                             ms |-> ms]
              ELSE [ret |-> CompileError(MsgNotStr, SpanLit(n)), ms |-> ms]
         ELSE IF ms # None
              THEN [ret |-> CompileError(MsgDuplicate, SpanArg(n)), ms |-> ms]
              ELSE [ret |-> CompileError(MsgUnknown, SpanArg(n)), ms |-> ms]
    ELSE [ret |-> Pending, ms |-> ms]

(***************************************************************************)
(* One iteration of the loop over the attribute arguments, for the         *)
(* argument arg at position n and the strategy accepted so far ms: the     *)
(* diagnostic it returns (ret, Pending when it returns none) and the       *)
(* strategy accepted after it.                                             *)
(***************************************************************************)
ClassifyArg(arg, n, ms) ==
    IF arg.shape = "NameValue"
    THEN IF arg.path = "strategy" /\ ms = None
         THEN IF arg.lit.kind = "Str"
              THEN LET parsed == ParseExpr(arg.lit.text)
                   IN  IF parsed.ok
                       THEN [ret |-> Pending,
                             ms |-> Some([expr |-> parsed, span |-> SpanLit(n)])]
                       ELSE [ret |-> CompileError(MsgInvalidExpr(parsed.err), SpanLit(n)),
                             ms |-> ms]
              ELSE [ret |-> CompileError(MsgNotStr, SpanLit(n)), ms |-> ms]
         ELSE IF ms # None
              THEN [ret |-> CompileError(MsgDuplicate, SpanArg(n)), ms |-> ms]
              ELSE [ret |-> CompileError(MsgUnknown, SpanArg(n)), ms |-> ms]
    ELSE [ret |-> CompileError(MsgUnknown, SpanArg(n)), ms |-> ms]

(* Faulty variant of the match: without a strategy the expansion goes on with a default. *)
StrategyTokens_Default(ms) ==
    IF ms # None
    THEN [ret |-> Pending, strategy |-> Some([expr |-> ms.val.expr, span |-> ms.val.span])]
    ELSE [ret |-> Pending,
          strategy |-> Some([expr |-> ExprOk("Call", <<"any">>), span |-> NoSpan])]

(* The match on maybe_strategy after the loop. *)
StrategyTokens(ms) ==
    IF ms # None
    THEN [ret |-> Pending, strategy |-> Some([expr |-> ms.val.expr, span |-> ms.val.span])]
    ELSE [ret |-> CompileErrorMacro(MsgMissing), strategy |-> None]

(* Faulty variant: the emitted signature keeps the declared return type. *)
TestFunctionSignature_KeepsOutput(sig) ==
    [sig EXCEPT !.inputs = <<>>]

(* The signature of the emitted function: the original's, without inputs and output. *)
TestFunctionSignature(sig) ==
    [sig EXCEPT !.inputs = <<>>, !.output = ReturnDefault]

(* Faulty variant of the loop body: the binding modifier of the pattern is lost. *)
CheckParam_DropsMut(arg, n) ==
    IF arg.form = "Typed"
    THEN IF arg.attrs # <<>>
         THEN [ret |-> CompileError(MsgParamAttrs, SpanParamAttr(n, 1)),
               pat |-> NoPat, ty |-> ""]
         ELSE [ret |-> Pending, pat |-> [arg.pat EXCEPT !.mut = FALSE], ty |-> arg.ty]
    ELSE [ret |-> CompileError(MsgReceiver, SpanParam(n)), pat |-> NoPat, ty |-> ""]

(* Faulty variant of the loop body: a receiver is collected like a typed parameter. *)
CheckParam_AcceptsReceiver(arg, n) ==
    IF arg.attrs # <<>>
    THEN [ret |-> CompileError(MsgParamAttrs, SpanParamAttr(n, 1)),
          pat |-> NoPat, ty |-> ""]
    ELSE [ret |-> Pending, pat |-> arg.pat, ty |-> arg.ty]

(* One iteration of the loop over the parameters, for the parameter arg at position n. *)
CheckParam(arg, n) ==
    IF arg.form = "Typed"
    THEN IF arg.attrs # <<>>
         THEN [ret |-> CompileError(MsgParamAttrs, SpanParamAttr(n, 1)),
               pat |-> NoPat, ty |-> ""]
         ELSE [ret |-> Pending, pat |-> arg.pat, ty |-> arg.ty]
    ELSE [ret |-> CompileError(MsgReceiver, SpanParam(n)), pat |-> NoPat, ty |-> ""]

(* Faulty variant: a single parameter is wrapped in a tuple like several. *)
InnerInputs_NoSingleCase(pats, tys) ==
    IF pats = <<>>
    THEN [shape |-> "Empty", pats |-> <<>>, tys |-> <<>>]
    ELSE [shape |-> "Tuple", pats |-> pats, tys |-> tys]

(* The binding of the runner's callback built from the collected patterns and types. *)
InnerInputs(pats, tys) ==
    IF pats = <<>>
    THEN [shape |-> "Empty", pats |-> <<>>, tys |-> <<>>]
    ELSE IF Len(pats) = 1
         THEN [shape |-> "Single", pats |-> <<pats[1]>>, tys |-> <<tys[1]>>]
         ELSE [shape |-> "Tuple", pats |-> pats, tys |-> tys]

(* The final quote!: the emitted item. *)
QuoteOutput(a, v, sig, strat, inner, inner_output, inner_stmts) ==
    [attrs |-> a, vis |-> v, sig |-> sig, strategy |-> strat,
     closure_inputs |-> Some(inner), closure_output |-> inner_output,
     closure_stmts |-> inner_stmts]

(***************************************************************************)
(* The expansion, stage by stage.                                          *)
(***************************************************************************)
Init ==
    /\ args \in ArgInputs
    /\ input \in FnInputs
    /\ pc = "parse_args"
    /\ i = 1
    /\ maybe_strategy = None
    /\ strategy = None
    /\ attrs = <<>>
    /\ vis = ""
    /\ test_function_signature = NoFn.sig
    /\ k = 1
    /\ inner_inputs_pats = <<>>
    /\ inner_inputs_types = <<>>
    /\ inner_inputs = None
    /\ output = Pending

(* parse_macro_input!(args as AttributeArgs) *)
ParseArgs ==
    /\ pc = "parse_args"
    /\ IF args.wellformed
       THEN pc' = "args" /\ output' = output
       ELSE pc' = "done" /\ output' = CompileError(MsgArgsSyntax, NoSpan)
    /\ UNCHANGED <<args, input, i, maybe_strategy, strategy, attrs, vis,
                   test_function_signature, k, inner_inputs_pats,
                   inner_inputs_types, inner_inputs>>

(* for arg in args { ... } : one iteration *)
ArgStep ==
    /\ pc = "args"
    /\ i <= Len(args.list)
    /\ LET r == ClassifyArg(args.list[i], i, maybe_strategy)
       IN  /\ maybe_strategy' = r.ms
           /\ IF r.ret # Pending
              THEN pc' = "done" /\ output' = r.ret /\ i' = i
              ELSE pc' = pc /\ output' = output /\ i' = i + 1
    /\ UNCHANGED <<args, input, strategy, attrs, vis, test_function_signature, k,
                   inner_inputs_pats, inner_inputs_types, inner_inputs>>

(* let strategy = match maybe_strategy { ... } *)
MatchStrategy ==
    /\ pc = "args"
    /\ i > Len(args.list)
    /\ LET r == StrategyTokens(maybe_strategy)
       IN  /\ strategy' = r.strategy
           /\ IF r.ret # Pending
              THEN pc' = "done" /\ output' = r.ret
              ELSE pc' = "parse_input" /\ output' = output
    /\ UNCHANGED <<args, input, i, maybe_strategy, attrs, vis,
                   test_function_signature, k, inner_inputs_pats,
                   inner_inputs_types, inner_inputs>>

(* parse_macro_input!(input as ItemFn), attrs, vis, test_function_signature *)
ParseInput ==
    /\ pc = "parse_input"
    /\ IF input.is_fn
       THEN /\ attrs' = input.attrs
            /\ vis' = input.vis
            /\ test_function_signature' = TestFunctionSignature(input.sig)
            /\ pc' = "params"
            /\ output' = output
       ELSE /\ pc' = "done"
            /\ output' = CompileError(MsgItemSyntax, NoSpan)
            /\ UNCHANGED <<attrs, vis, test_function_signature>>
    /\ UNCHANGED <<args, input, i, maybe_strategy, strategy, k, inner_inputs_pats,
                   inner_inputs_types, inner_inputs>>

(* for arg in input.sig.inputs.into_iter() { ... } : one iteration *)
ParamStep ==
    /\ pc = "params"
    /\ k <= Len(input.sig.inputs)
    /\ LET r == CheckParam(input.sig.inputs[k], k)
       IN  IF r.ret # Pending
           THEN /\ pc' = "done"
                /\ output' = r.ret
                /\ UNCHANGED <<k, inner_inputs_pats, inner_inputs_types>>
           ELSE /\ inner_inputs_pats' = Append(inner_inputs_pats, r.pat)
                /\ inner_inputs_types' = Append(inner_inputs_types, r.ty)
                /\ k' = k + 1
                /\ UNCHANGED <<pc, output>>
    /\ UNCHANGED <<args, input, i, maybe_strategy, strategy, attrs, vis,
                   test_function_signature, inner_inputs>>

(* let inner_inputs = if ... *)
Collapse ==
    /\ pc = "params"
    /\ k > Len(input.sig.inputs)
    /\ inner_inputs' = Some(InnerInputs(inner_inputs_pats, inner_inputs_types))
    /\ pc' = "emit"
    /\ UNCHANGED <<args, input, i, maybe_strategy, strategy, attrs, vis,
                   test_function_signature, k, inner_inputs_pats,
                   inner_inputs_types, output>>

(* inner_output, inner_stmts and the final quote! *)
Emit ==
    /\ pc = "emit"
    /\ output' = Emitted(QuoteOutput(attrs, vis, test_function_signature, strategy,
                                     inner_inputs.val, input.sig.output, input.stmts))
    /\ pc' = "done"
    /\ UNCHANGED <<args, input, i, maybe_strategy, strategy, attrs, vis,
                   test_function_signature, k, inner_inputs_pats,
                   inner_inputs_types, inner_inputs>>

Next ==
    \/ ParseArgs
    \/ ArgStep
    \/ MatchStrategy
    \/ ParseInput
    \/ ParamStep
    \/ Collapse
    \/ Emit

Spec == Init /\ [][Next]_vars

(***************************************************************************)
(* Vocabulary of the properties, stated on the inputs of the expansion.    *)
(***************************************************************************)
Done == pc = "done"
ArgList == args.list
Params == input.sig.inputs
Min(S) == CHOOSE x \in S : \A y \in S : x <= y

HasStrategyKey(a) == a.shape = "NameValue" /\ a.path = "strategy"
IsStrategyStr(a) == HasStrategyKey(a) /\ a.lit.kind = "Str"
Parses(text) == text \in GoodTexts
AcceptableStrategy(a) == IsStrategyStr(a) /\ Parses(a.lit.text)

(* Argument j is in violation: it is no acceptable strategy, or one was accepted before it. *)
Offending(j) ==
    \/ ~AcceptableStrategy(ArgList[j])
    \/ \E h \in 1..(j - 1) : AcceptableStrategy(ArgList[h])
OffendingArgs == {j \in 1..Len(ArgList) : Offending(j)}

BadParam(p) == p.form = "Receiver" \/ p.attrs # <<>>
BadParams == {j \in 1..Len(Params) : BadParam(Params[j])}

ArgsOk == args.wellformed /\ Len(ArgList) = 1 /\ AcceptableStrategy(ArgList[1])
Success == Done /\ output.kind = "fn"
Binding == output.item.closure_inputs.val

(***************************************************************************)
(* C1: on every successful expansion the callback binding is empty for no  *)
(* parameter, the parameter's own pattern and type (unwrapped) for one,    *)
(* and for two or more the tuple of the patterns typed as the tuple of the *)
(* types; the j-th emitted pattern and type are the j-th declared ones.    *)
(***************************************************************************)
C1_BindingFollowsParameters ==
    Success =>
        /\ Len(Params) = 0 => Binding.shape = "Empty"
        /\ Len(Params) = 1 => Binding.shape = "Single"
        /\ Len(Params) >= 2 => Binding.shape = "Tuple"
        /\ Len(Binding.pats) = Len(Params)
        /\ Len(Binding.tys) = Len(Params)
        /\ \A j \in 1..Len(Params) :
              /\ Binding.pats[j] = Params[j].pat
              /\ Binding.tys[j] = Params[j].ty

C1_Witness ==
    /\ Success
    /\ Len(Params) >= 2
    /\ Params[1] # Params[2]
    /\ Params[2].pat.kind = "Tuple"

(***************************************************************************)
(* C2: on every successful expansion the emitted function has the          *)
(* original's attributes, visibility, name, generics and asyncness, no     *)
(* parameters and no return type; the original return type is the          *)
(* callback's, the original statements are the callback's body, and the    *)
(* local strategy is the expression parsed from the accepted literal.      *)
(***************************************************************************)
C2_FrameOfEmittedFunction ==
    Success =>
        /\ output.item.attrs = input.attrs
        /\ output.item.vis = input.vis
        /\ output.item.sig.ident = input.sig.ident
        /\ output.item.sig.generics = input.sig.generics
        /\ output.item.sig.asyncness = input.sig.asyncness
        /\ output.item.sig.inputs = <<>>
        /\ output.item.sig.output = ReturnDefault
        /\ output.item.closure_output = input.sig.output
        /\ output.item.closure_stmts = input.stmts
        /\ output.item.strategy.tag = "Some"
        /\ output.item.strategy.val.expr = ParseExpr(ArgList[1].lit.text)
        /\ output.item.strategy.val.expr.ok
        /\ output.item.strategy.val.span = SpanLit(1)

C2_Witness ==
    /\ Success
    /\ input.sig.output.tag = "Type"
    /\ input.attrs # <<>>
    /\ Len(Params) >= 1

(***************************************************************************)
(* C3 as stated: every argument list that contains two `strategy = "..."`  *)
(* arguments fails with DuplicateStrategy anchored at the second of them.  *)
(***************************************************************************)
StrategyStrArgs == {j \in 1..Len(ArgList) : IsStrategyStr(ArgList[j])}

C3_AsStated ==
    (Done /\ args.wellformed /\ Cardinality(StrategyStrArgs) = 2) =>
        output = CompileError(MsgDuplicate,
                              SpanArg(Min(StrategyStrArgs \ {Min(StrategyStrArgs)})))

(***************************************************************************)
(* C3 amended: when the first two arguments are both `strategy = "..."`    *)
(* arguments and the first one's string parses, the expansion fails with   *)
(* DuplicateStrategy anchored at the second argument and emits no function. *)
(***************************************************************************)
C3_Case ==
    /\ args.wellformed
    /\ Len(ArgList) >= 2
    /\ AcceptableStrategy(ArgList[1])
    /\ IsStrategyStr(ArgList[2])

C3_DuplicateAtSecond ==
    /\ (Done /\ C3_Case) => output = CompileError(MsgDuplicate, SpanArg(2))
    /\ C3_Case => pc \in {"parse_args", "args", "done"}

C3_Witness == Done /\ C3_Case /\ output.message = MsgDuplicate

(***************************************************************************)
(* C4: when the first offending argument has not the `strategy = <value>`  *)
(* form, the expansion fails with UnknownArgument anchored at it, before   *)
(* as well as after a strategy has been accepted.                          *)
(***************************************************************************)
C4_UnknownArgument ==
    (Done /\ args.wellformed /\ OffendingArgs # {}
          /\ ~HasStrategyKey(ArgList[Min(OffendingArgs)])) =>
        output = CompileError(MsgUnknown, SpanArg(Min(OffendingArgs)))

(***************************************************************************)
(* C5: when the first offending argument is `strategy = v` with v not a    *)
(* string literal, the expansion fails with StrategyNotAStringLiteral      *)
(* anchored at v, whether or not a strategy was accepted before it.        *)
(***************************************************************************)
C5_StrategyNotAStringLiteral ==
    (Done /\ args.wellformed /\ OffendingArgs # {}
          /\ HasStrategyKey(ArgList[Min(OffendingArgs)])
          /\ ArgList[Min(OffendingArgs)].lit.kind # "Str") =>
        output = CompileError(MsgNotStr, SpanLit(Min(OffendingArgs)))

(***************************************************************************)
(* C6 as stated: a `strategy = "s"` argument whose s does not parse makes  *)
(* the expansion fail with InvalidStrategyExpression anchored at that      *)
(* literal, wherever it stands in the list.                                *)
(***************************************************************************)
UnparsableArgs ==
    {j \in 1..Len(ArgList) : IsStrategyStr(ArgList[j]) /\ ~Parses(ArgList[j].lit.text)}

C6_AsStated ==
    (Done /\ args.wellformed) =>
        \A j \in UnparsableArgs :
            /\ output.kind = "error"
            /\ output.message.text = MsgInvalidExpr("").text
            /\ output.span = SpanLit(j)

(***************************************************************************)
(* C6 amended: when the first argument is a `strategy = "s"` argument      *)
(* whose s does not parse, the expansion fails with                        *)
(* InvalidStrategyExpression, the message embedding the parse error and    *)
(* the diagnostic anchored at that literal, whatever arguments follow.     *)
(***************************************************************************)
C6_Case == args.wellformed /\ 1 \in UnparsableArgs

C6_InvalidFirstStrategy ==
    /\ (Done /\ C6_Case) =>
          /\ output.kind = "error"
          /\ output.message.text = MsgInvalidExpr("").text
          /\ output.message.detail # ""
          /\ output.message.detail = ParseExpr(ArgList[1].lit.text).err
          /\ output.span = SpanLit(1)
    /\ C6_Case => pc \in {"parse_args", "args", "done"}

C6_Witness == Done /\ C6_Case /\ Len(ArgList) >= 2 /\ output.span = SpanLit(1)

(***************************************************************************)
(* C7 as stated: every argument list without a `strategy` argument fails   *)
(* with MissingStrategy, whatever else it holds.                           *)
(***************************************************************************)
NoStrategyKey == \A j \in 1..Len(ArgList) : ~HasStrategyKey(ArgList[j])

C7_AsStated ==
    (Done /\ args.wellformed /\ NoStrategyKey) => output = CompileErrorMacro(MsgMissing)

(***************************************************************************)
(* C7 amended: the empty argument list fails with MissingStrategy, the     *)
(* compile-error marker, whatever the annotated item is; a non-empty list  *)
(* without a `strategy` argument fails with UnknownArgument at its first   *)
(* argument. Neither emits a function.                                     *)
(***************************************************************************)
C7_MissingStrategy ==
    (Done /\ args.wellformed /\ NoStrategyKey) =>
        IF ArgList = <<>>
        THEN output = CompileErrorMacro(MsgMissing)
        ELSE output = CompileError(MsgUnknown, SpanArg(1))

C7_Witness ==
    /\ Done
    /\ args.wellformed
    /\ ArgList = <<>>
    /\ output.kind = "compile_error_macro"
    /\ input.is_fn
    /\ Params # <<>>

(***************************************************************************)
(* C8: a parameter with a `mut` binding and no attributes is never         *)
(* rejected for carrying attributes, and on success its `mut` is on the    *)
(* same element of the emitted pattern while the other patterns are        *)
(* emitted unchanged.                                                      *)
(***************************************************************************)
MutParams ==
    {j \in 1..Len(Params) :
        Params[j].form = "Typed" /\ Params[j].pat.mut /\ Params[j].attrs = <<>>}

C8_MutPreserved ==
    Done =>
        /\ \A j \in MutParams :
              ~(output.message = MsgParamAttrs /\ output.span.at = j)
        /\ (output.kind = "fn" /\ MutParams # {}) =>
              /\ Len(Binding.pats) = Len(Params)
              /\ \A j \in MutParams : Binding.pats[j].mut
              /\ \A j \in 1..Len(Params) :
                    /\ Binding.pats[j].mut = Params[j].pat.mut
                    /\ Binding.pats[j].elems = Params[j].pat.elems
                    /\ Binding.pats[j].kind = Params[j].pat.kind

C8_Witness ==
    /\ Success
    /\ Len(Params) >= 2
    /\ 2 \in MutParams
    /\ 1 \notin MutParams

(***************************************************************************)
(* C9: with a valid strategy accepted, the expansion fails at the first    *)
(* parameter that is a receiver (ReceiverNotAllowed, anchored at the       *)
(* parameter) or carries attributes (ParameterAttributesNotAllowed,        *)
(* anchored at its first attribute); no function is emitted then, and the  *)
(* callback binding is built only after every parameter was validated.     *)
(***************************************************************************)
C9_Case == ArgsOk /\ input.is_fn /\ BadParams # {}

C9_FirstBadParameter ==
    /\ (Done /\ C9_Case) =>
          /\ Params[Min(BadParams)].form = "Receiver" =>
                output = CompileError(MsgReceiver, SpanParam(Min(BadParams)))
          /\ Params[Min(BadParams)].form = "Typed" =>
                output = CompileError(MsgParamAttrs, SpanParamAttr(Min(BadParams), 1))
    /\ C9_Case => inner_inputs = None /\ output.kind # "fn" /\ k <= Min(BadParams)
    /\ inner_inputs # None =>
          /\ k = Len(Params) + 1
          /\ Len(inner_inputs_pats) = Len(Params)
          /\ BadParams = {}

C9_Witness ==
    /\ Done
    /\ C9_Case
    /\ Min(BadParams) = 2
    /\ Params[2].form = "Typed"
    /\ Len(Params[2].attrs) = 2

(***************************************************************************)
(* C10: every expansion ends in exactly one outcome, the function or one   *)
(* diagnostic, and the diagnostic is that of the first violation in the    *)
(* order: arguments in source order, the missing strategy, the parameters  *)
(* in declaration order. A function is emitted only for exactly one        *)
(* accepted strategy argument and parameters that are all typed and        *)
(* without attributes.                                                     *)
(***************************************************************************)
C10_OneOutcomeFirstViolation ==
    /\ (output # Pending) <=> Done
    /\ Done =>
          /\ output.kind \in {"fn", "error", "compile_error_macro"}
          /\ (output.kind = "fn") <=> (output.item # NoFn)
          /\ (output.kind = "fn") <=> (output.message = NoMsg)
    /\ (Done /\ args.wellformed) =>
          IF OffendingArgs # {}
          THEN /\ output.kind = "error"
               /\ output.span.of \in {"arg", "lit"}
               /\ output.span.at = Min(OffendingArgs)
          ELSE IF ArgList = <<>>
          THEN output = CompileErrorMacro(MsgMissing)
          ELSE IF ~input.is_fn
          THEN output.kind = "error" /\ output.span = NoSpan
          ELSE IF BadParams # {}
          THEN /\ output.kind = "error"
               /\ output.span.of \in {"param", "param_attr"}
               /\ output.span.at = Min(BadParams)
          ELSE output.kind = "fn"
    /\ Success => ArgsOk /\ input.is_fn /\ BadParams = {}

C10_Witness ==
    /\ Done
    /\ args.wellformed
    /\ OffendingArgs = {2}
    /\ input.is_fn
    /\ BadParams # {}
    /\ output.kind = "error"
    /\ output.span.at = 2

====
